---- MODULE Spec2Model ----
(***************************************************************************)
(* Model of the two sketches of parangoles-eletronicos.                    *)
(*                                                                         *)
(*  - MPU_SEM_OSC/ESP32_MPU_BUZZER_SIMPLE/src/main.cpp: the motion-to-note *)
(*    mapper (defineNoteDuration, defineMelodyNote, defineBassNote) and    *)
(*    the polling loop that drives the two buzzers (specification Spec).   *)
(*  - MPU_OSC/ESP32/ESP32_MPU_OSC/src/main.cpp: the OSC streaming sketch   *)
(*    (specification SpecOSC).                                             *)
(*                                                                         *)
(* Magnitudes (totalAcc, totalSpin) are floats in the source; the model    *)
(* keeps them in hundredths, so 0.5 is 50, 0.75 is 75, 3 is 300, 4 is 400. *)
(*                                                                         *)
(* loop() of each sketch is cut into steps at its calls, so that the order *)
(* of stop, derivation and start is visible in the states.  The LED strips *)
(* (playMelodyLEDs, playBassLEDs, pixelMelody, pixelBass) and the serial   *)
(* prints write state that nothing modelled here reads; they are left out. *)
(***************************************************************************)
EXTENDS Integers, Sequences, FiniteSets, TLC

\* ------------------------------------------------------------------ bounds
\* last value of millis() the model explores
MaxMillis == 150

\* ---------------------------------------------------------- program tables
\* delay(50) at the end of loop()
LoopDelay == 50

\* sampled magnitudes, in hundredths: below, at, and between the thresholds
\* 0.5, 0.75 and 3 of defineNoteDuration / defineMelodyNote
AccValues == {0, 50, 60, 75, 100, 300}

\* sampled magnitudes, in hundredths: below 0.5, below 3, in [3,4], above 4
SpinValues == {0, 100, 300, 500}

noteDurationSeq ==
  <<125, 125, 125, 125, 125, 125, 125, 125, 250, 250,
    250, 250, 500, 500, 500, 500, 1000, 1000, 1000, 1500>>

\* int noteDuration[] (0-based as in the source)
noteDuration == [i \in 0..19 |-> noteDurationSeq[i + 1]]

harmonicsSeq ==
  << <<2, 4, 6>>, <<3, 5, 0>>, <<4, 6, 1>>,
     <<5, 0, 2>>, <<6, 1, 3>>, <<0, 2, 4>>,
     <<1, 3, 5>>, <<0, 2, 4>> >>

\* int harmonics[8][3] (0-based rows and columns as in the source)
harmonics == [r \in 0..7 |-> [c \in 0..2 |-> harmonicsSeq[r + 1][c + 1]]]

\* index domain of int bb_scale[6][8]: the entries are frequency constants of
\* pitches.h, the model keeps the (octave, pitch) index pair of a lookup
bb_scale == [o \in 0..5 |-> [p \in 0..7 |-> <<o, p>>]]

\* Arduino random(min, max): a value in min .. max-1
Random(lo, hi) == lo .. (hi - 1)

\* the indices defineNoteDuration may draw for totalAcc
DurationIndex(totalAcc) ==
  IF totalAcc > 50 /\ totalAcc < 75 THEN Random(18, 19)
  ELSE IF totalAcc > 75 /\ totalAcc < 300 THEN Random(10, 18)
  ELSE Random(0, 10)

\* the columns of harmonics defineBassNote may draw
HarmonicColumn == Random(0, 2)

\* octave walk of defineMelodyNote before the wrap
MelodyWalk(octave, totalAcc) ==
  LET o1 == IF totalAcc < 300 THEN octave - 1 ELSE octave
  IN  IF totalAcc >= 300 THEN o1 + 1 ELSE o1

\* MelodyWrap with the upper test off by one
MelodyWrap_OffByOne(octave) ==
  LET o1 == IF octave < 0 THEN 5 ELSE octave
  IN  IF o1 > 6 THEN 2 ELSE o1

\* octave wrap of defineMelodyNote
MelodyWrap(octave) ==
  LET o1 == IF octave < 0 THEN 5 ELSE octave
  IN  IF o1 > 5 THEN 2 ELSE o1

\* octave walk of defineBassNote before the wrap
BassWalk(octave, totalSpin) ==
  LET o1 == IF totalSpin < 300 THEN octave - 1 ELSE octave
  IN  IF totalSpin >= 300 THEN o1 + 1 ELSE o1

\* BassWrap with the wrap targets of the melody voice
BassWrap_AsMelody(octave) ==
  LET o1 == IF octave < 0 THEN 5 ELSE octave
  IN  IF o1 > 5 THEN 2 ELSE o1

\* octave wrap of defineBassNote
BassWrap(octave) ==
  LET o1 == IF octave < 0 THEN 2 ELSE octave
  IN  IF o1 > 5 THEN 0 ELSE o1

\* pitch jitter of defineMelodyNote with random draw r
Jitter(pitch, totalSpin, r) ==
  LET p1 == IF totalSpin < 300 THEN pitch - r ELSE pitch
  IN  IF totalSpin > 400 THEN p1 + r ELSE p1

RECURSIVE Sub3(_)
\* while (pitch > 6) pitch -= 3
Sub3(pitch) == IF pitch > 6 THEN Sub3(pitch - 3) ELSE pitch

\* Rectify without the abs step
Rectify_NoAbs(pitch) == Sub3(pitch)

\* if (pitch < 0) pitch = abs(pitch); while (pitch > 6) pitch -= 3
Rectify(pitch) == Sub3(IF pitch < 0 THEN 0 - pitch ELSE pitch)

\* NearStill with && in place of ||
NearStill_And(totalAcc, totalSpin) == totalAcc < 50 /\ totalSpin < 50

\* the near-stillness test of both voices
NearStill(totalAcc, totalSpin) == totalAcc < 50 \/ totalSpin < 50

\* defineMelodyNote with the bass voice's doubling of the duration
defineMelodyNote_Doubled(n, totalAcc, totalSpin, r, idx) ==
  LET octave == MelodyWrap(MelodyWalk(n.octave, totalAcc))
      pitch  == Rectify(Jitter(n.pitch, totalSpin, r))
      n1     == [n EXCEPT !.pitch = pitch, !.octave = octave,
                          !.duration = noteDuration[idx] * 2]
  IN  IF NearStill(totalAcc, totalSpin)
        THEN [n1 EXCEPT !.pitch = 7, !.duration = 50]
        ELSE n1

\* the Note left by defineMelodyNote(totalAcc, totalSpin) with draws r, idx
defineMelodyNote(n, totalAcc, totalSpin, r, idx) ==
  LET octave == MelodyWrap(MelodyWalk(n.octave, totalAcc))
      pitch  == Rectify(Jitter(n.pitch, totalSpin, r))
      n1     == [n EXCEPT !.pitch = pitch, !.octave = octave,
                          !.duration = noteDuration[idx]]
  IN  IF NearStill(totalAcc, totalSpin)
        THEN [n1 EXCEPT !.pitch = 7, !.duration = 50]
        ELSE n1

\* defineBassNote with the bass voice's own pitch as the harmonics row
defineBassNote_OwnRow(n, melodyPitch, totalAcc, totalSpin, col, idx) ==
  LET octave == BassWrap(BassWalk(n.octave, totalSpin))
      n1     == [n EXCEPT !.pitch = harmonics[n.pitch][col],
                          !.octave = octave,
                          !.duration = noteDuration[idx] * 2]
  IN  IF NearStill(totalAcc, totalSpin)
        THEN [n1 EXCEPT !.pitch = 7, !.duration = 50]
        ELSE n1

\* the Note left by defineBassNote(totalAcc, totalSpin) with draws col, idx,
\* melodyPitch being melodyCurrentNote.pitch at the call
defineBassNote(n, melodyPitch, totalAcc, totalSpin, col, idx) ==
  LET octave == BassWrap(BassWalk(n.octave, totalSpin))
      n1     == [n EXCEPT !.pitch = harmonics[melodyPitch][col],
                          !.octave = octave,
                          !.duration = noteDuration[idx] * 2]
  IN  IF NearStill(totalAcc, totalSpin)
        THEN [n1 EXCEPT !.pitch = 7, !.duration = 50]
        ELSE n1

\* unsigned long subtraction currentMillis - previousMillis; the clock of the
\* model stays far below the 2^32 ms wrap, where this is the plain difference
Elapsed(cur, prev) == cur - prev

\* Due with > in place of >=
Due_Strict(cur, prev, duration) == Elapsed(cur, prev) > duration

\* the due test of loop() for one voice
Due(cur, prev, duration) == Elapsed(cur, prev) >= duration

\* no call frame of define*Note is live
NoCall ==
  [fn |-> "none", totalAcc |-> 0, totalSpin |-> 0, pitchIn |-> 0,
   octaveIn |-> 0, octaveWalk |-> 0, row |-> 0, col |-> 0, idx |-> 0,
   ret |-> 0]

\* a buzzer pin with no tone
Off == <<>>

VARIABLES
  melodyCurrentNote,    \* struct note of the melody voice
  bassCurrentNote,      \* struct note of the bass voice
  previousMillisMelody, \* last update time of the melody voice
  previousMillisBass,   \* last update time of the bass voice
  currentMillis,        \* millis() as read at the top of loop()
  millis,               \* the millisecond clock
  tone1,                \* BUZZZER_PIN_1: Off, or the bb_scale entry sounding
  tone2,                \* BUZZZER_PIN_2: Off, or the bb_scale entry sounding
  call,                 \* parameters and locals of the define*Note call
                        \* whose result playXNote is about to sound
  pc                    \* position in loop()

\* the state of the buzzer sketch
buzzerVars ==
  <<melodyCurrentNote, bassCurrentNote, previousMillisMelody,
    previousMillisBass, currentMillis, millis, tone1, tone2, call, pc>>

VARIABLES
  oscServerIp,          \* String oscServerIp
  gyr,                  \* arguments held by OSCMessage gyr("/gyr")
  acc,                  \* arguments held by OSCMessage acc("/acc")
  optMsg,               \* arguments held by OSCMessage optMsg("/opt")
  buttonCounter,        \* int buttonCounter
  lastButtonPress,      \* unsigned long lastButtonPress
  lastButtonState,      \* static bool lastButtonState of loop()
  sample,               \* ax, ay, az, gx, gy, gz of loop(), <<>> before the read
  udp1,                 \* packets sent through Udp1 in this loop() iteration
  udp2,                 \* packets sent through Udp2 in this loop() iteration
  oscMillis,            \* the millisecond clock of the OSC sketch
  oscPc                 \* position in loop() of the OSC sketch

\* the state of the OSC sketch
oscVars ==
  <<oscServerIp, gyr, acc, optMsg, buttonCounter, lastButtonPress,
    lastButtonState, sample, udp1, udp2, oscMillis, oscPc>>

vars == <<buzzerVars, oscVars>>

\* the globals of the OSC sketch as initialised
OSCGlobals ==
  /\ oscServerIp = "192.168.0.10"
  /\ gyr = <<>>
  /\ acc = <<>>
  /\ optMsg = <<>>
  /\ buttonCounter = 1
  /\ lastButtonPress = 0
  /\ lastButtonState = "HIGH"
  /\ sample = <<>>
  /\ udp1 = <<>>
  /\ udp2 = <<>>

\* the OSC sketch not running
OSCIdle ==
  /\ OSCGlobals
  /\ oscMillis = 0
  /\ oscPc = "off"

\* the globals of the buzzer sketch as initialised
InitBuzzer ==
  /\ melodyCurrentNote = [pitch |-> 0, octave |-> 3, duration |-> 0,
                          is_playing |-> FALSE]
  /\ bassCurrentNote = [pitch |-> 0, octave |-> 0, duration |-> 0,
                        is_playing |-> FALSE]
  /\ previousMillisMelody = 0
  /\ previousMillisBass = 0
  /\ currentMillis = 0
  /\ millis = 0
  /\ tone1 = Off
  /\ tone2 = Off
  /\ call = NoCall
  /\ pc = "begin"

Init == InitBuzzer /\ OSCIdle

\* currentMillis = millis();
LoopBegin ==
  /\ UNCHANGED oscVars
  /\ pc = "begin"
  /\ currentMillis' = millis
  /\ pc' = "melody"
  /\ UNCHANGED <<melodyCurrentNote, bassCurrentNote, previousMillisMelody,
                 previousMillisBass, millis, tone1, tone2, call>>

\* the melody voice is due: record the time, stop the previous tone
MelodyStop ==
  /\ UNCHANGED oscVars
  /\ pc = "melody"
  /\ Due(currentMillis, previousMillisMelody, melodyCurrentNote.duration)
  /\ previousMillisMelody' = currentMillis
  /\ IF melodyCurrentNote.is_playing
       THEN /\ tone1' = Off
            /\ melodyCurrentNote' =
                 [melodyCurrentNote EXCEPT !.is_playing = FALSE]
       ELSE UNCHANGED <<tone1, melodyCurrentNote>>
  /\ pc' = "playMelodyNote"
  /\ UNCHANGED <<bassCurrentNote, previousMillisBass, currentMillis, millis,
                 tone2, call>>

\* the melody voice is not due
MelodySkip ==
  /\ UNCHANGED oscVars
  /\ pc = "melody"
  /\ ~Due(currentMillis, previousMillisMelody, melodyCurrentNote.duration)
  /\ pc' = "bass"
  /\ UNCHANGED <<melodyCurrentNote, bassCurrentNote, previousMillisMelody,
                 previousMillisBass, currentMillis, millis, tone1, tone2,
                 call>>

\* playMelodyNote up to the return of defineMelodyNote
MelodyDefine ==
  /\ UNCHANGED oscVars
  /\ pc = "playMelodyNote"
  /\ \E totalAcc \in AccValues, totalSpin \in SpinValues, r \in Random(0, 6) :
       \E idx \in DurationIndex(totalAcc) :
         /\ melodyCurrentNote' =
              defineMelodyNote(melodyCurrentNote, totalAcc, totalSpin, r, idx)
         /\ call' = [fn |-> "defineMelodyNote", totalAcc |-> totalAcc,
                     totalSpin |-> totalSpin,
                     pitchIn |-> melodyCurrentNote.pitch,
                     octaveIn |-> melodyCurrentNote.octave,
                     octaveWalk |-> MelodyWalk(melodyCurrentNote.octave,
                                               totalAcc),
                     row |-> 0, col |-> 0, idx |-> idx,
                     ret |-> noteDuration[idx]]
  /\ pc' = "melodyTone"
  /\ UNCHANGED <<bassCurrentNote, previousMillisMelody, previousMillisBass,
                 currentMillis, millis, tone1, tone2>>

\* tone(BUZZZER_PIN_1, bb_scale[octave][pitch]); is_playing = true;
MelodyTone ==
  /\ UNCHANGED oscVars
  /\ pc = "melodyTone"
  /\ tone1' = bb_scale[melodyCurrentNote.octave][melodyCurrentNote.pitch]
  /\ melodyCurrentNote' = [melodyCurrentNote EXCEPT !.is_playing = TRUE]
  /\ call' = NoCall
  /\ pc' = "bass"
  /\ UNCHANGED <<bassCurrentNote, previousMillisMelody, previousMillisBass,
                 currentMillis, millis, tone2>>

\* the bass voice is due: record the time, stop the previous tone
BassStop ==
  /\ UNCHANGED oscVars
  /\ pc = "bass"
  /\ Due(currentMillis, previousMillisBass, bassCurrentNote.duration)
  /\ previousMillisBass' = currentMillis
  /\ IF bassCurrentNote.is_playing
       THEN /\ tone2' = Off
            /\ bassCurrentNote' = [bassCurrentNote EXCEPT !.is_playing = FALSE]
       ELSE UNCHANGED <<tone2, bassCurrentNote>>
  /\ pc' = "playBassNote"
  /\ UNCHANGED <<melodyCurrentNote, previousMillisMelody, currentMillis,
                 millis, tone1, call>>

\* the bass voice is not due
BassSkip ==
  /\ UNCHANGED oscVars
  /\ pc = "bass"
  /\ ~Due(currentMillis, previousMillisBass, bassCurrentNote.duration)
  /\ pc' = "delay"
  /\ UNCHANGED <<melodyCurrentNote, bassCurrentNote, previousMillisMelody,
                 previousMillisBass, currentMillis, millis, tone1, tone2,
                 call>>

\* playBassNote up to the return of defineBassNote
BassDefine ==
  /\ UNCHANGED oscVars
  /\ pc = "playBassNote"
  /\ \E totalAcc \in AccValues, totalSpin \in SpinValues,
        col \in HarmonicColumn :
       \E idx \in DurationIndex(totalAcc) :
         /\ bassCurrentNote' =
              defineBassNote(bassCurrentNote, melodyCurrentNote.pitch,
                             totalAcc, totalSpin, col, idx)
         /\ call' = [fn |-> "defineBassNote", totalAcc |-> totalAcc,
                     totalSpin |-> totalSpin,
                     pitchIn |-> bassCurrentNote.pitch,
                     octaveIn |-> bassCurrentNote.octave,
                     octaveWalk |-> BassWalk(bassCurrentNote.octave,
                                             totalSpin),
                     row |-> melodyCurrentNote.pitch, col |-> col,
                     idx |-> idx, ret |-> noteDuration[idx]]
  /\ pc' = "bassTone"
  /\ UNCHANGED <<melodyCurrentNote, previousMillisMelody, previousMillisBass,
                 currentMillis, millis, tone1, tone2>>

\* tone(BUZZZER_PIN_2, bb_scale[octave][pitch]); is_playing = true;
BassTone ==
  /\ UNCHANGED oscVars
  /\ pc = "bassTone"
  /\ tone2' = bb_scale[bassCurrentNote.octave][bassCurrentNote.pitch]
  /\ bassCurrentNote' = [bassCurrentNote EXCEPT !.is_playing = TRUE]
  /\ call' = NoCall
  /\ pc' = "delay"
  /\ UNCHANGED <<melodyCurrentNote, previousMillisMelody, previousMillisBass,
                 currentMillis, millis, tone1>>

\* delay(50);
Delay ==
  /\ UNCHANGED oscVars
  /\ pc = "delay"
  /\ millis + LoopDelay <= MaxMillis
  /\ millis' = millis + LoopDelay
  /\ pc' = "begin"
  /\ UNCHANGED <<melodyCurrentNote, bassCurrentNote, previousMillisMelody,
                 previousMillisBass, currentMillis, tone1, tone2, call>>

Next ==
  \/ LoopBegin
  \/ MelodyStop
  \/ MelodySkip
  \/ MelodyDefine
  \/ MelodyTone
  \/ BassStop
  \/ BassSkip
  \/ BassDefine
  \/ BassTone
  \/ Delay

Spec == Init /\ [][Next]_vars

\* ------------------------------------------------ the mapper on its own
\* playMelodyNote or playBassNote entered with any in-range pair of Notes:
\* the voice about to be derived has been stopped, the other one sounds
InitDerive ==
  /\ pc \in {"playMelodyNote", "playBassNote"}
  /\ \E p \in 0..7, o \in 0..5 :
       melodyCurrentNote = [pitch |-> p, octave |-> o,
                            duration |-> IF p = 7 THEN 50 ELSE 125,
                            is_playing |-> (pc = "playBassNote")]
  /\ \E o \in 0..5 :
       bassCurrentNote = [pitch |-> 7, octave |-> o, duration |-> 50,
                          is_playing |-> (pc = "playMelodyNote")]
  /\ tone1 = IF melodyCurrentNote.is_playing
               THEN bb_scale[melodyCurrentNote.octave][melodyCurrentNote.pitch]
               ELSE Off
  /\ tone2 = IF bassCurrentNote.is_playing
               THEN bb_scale[bassCurrentNote.octave][bassCurrentNote.pitch]
               ELSE Off
  /\ millis = LoopDelay
  /\ currentMillis = LoopDelay
  /\ previousMillisMelody = LoopDelay
  /\ previousMillisBass = IF pc = "playBassNote" THEN LoopDelay ELSE 0
  /\ call = NoCall
  /\ OSCIdle

NextDerive ==
  \/ MelodyDefine
  \/ MelodyTone
  \/ BassDefine
  \/ BassTone

SpecDerive == InitDerive /\ [][NextDerive]_vars

\* ------------------------------------------------------- the OSC sketch
\* last value of millis() the model of the OSC sketch explores
MaxOscMillis == 1600

\* millis() when setup() has returned and loop() first runs
BootMillis == {20, 400}

\* const int oscServerPort1
oscServerPort1 == 8000

\* const int oscServerPort2
oscServerPort2 == 8001

\* const unsigned long debounceDelay
debounceDelay == 50

\* delay(150) at the end of loop()
OscLoopDelay == 150

\* addresses a POST /setip may carry
IpValues == {"192.168.0.10", "192.168.0.20"}

\* raw accelerometer readings (int16_t)
AccSamples == {-1, 2}

\* raw gyroscope readings (int16_t)
GyroSamples == {-3, 4}

\* an OSC float argument, as added by add((float)x)
Float(x) == [type |-> "f", value |-> x]

\* an OSC int argument, as added by add((int32_t)x)
Int32(x) == [type |-> "i", value |-> x]

\* beginPacket(ip, port); msg.send(Udp); endPacket(): one datagram holding the
\* message's address and the arguments it holds at the send
Packet(ip, port, address, args) ==
  [ip |-> ip, port |-> port, address |-> address, args |-> args]

\* sendOptOSC(value)
sendOptOSC(value) ==
  LET m1 == <<>>
      m2 == Append(m1, Int32(value))
      p1 == Packet(oscServerIp, oscServerPort1, "/opt", m2)
      m3 == <<>>
      p2 == Packet(oscServerIp, oscServerPort2, "/opt", m3)
      m4 == <<>>
  IN  /\ udp1' = Append(udp1, p1)
      /\ udp2' = Append(udp2, p2)
      /\ optMsg' = m4

\* sendOSCMessages(ax, ay, az, gx, gy, gz)
sendOSCMessages(ax, ay, az, gx, gy, gz) ==
  LET a1  == acc \o <<Float(ax), Float(ay), Float(az)>>
      g1  == gyr \o <<Float(gx), Float(gy), Float(gz)>>
      pa1 == Packet(oscServerIp, oscServerPort1, "/acc", a1)
      a2  == <<>>
      pg1 == Packet(oscServerIp, oscServerPort1, "/gyr", g1)
      g2  == <<>>
      pa2 == Packet(oscServerIp, oscServerPort2, "/acc", a2)
      a3  == <<>>
      pg2 == Packet(oscServerIp, oscServerPort2, "/gyr", g2)
      g3  == <<>>
  IN  /\ udp1' = udp1 \o <<pa1, pg1>>
      /\ udp2' = udp2 \o <<pa2, pg2>>
      /\ acc' = a3
      /\ gyr' = g3

\* server.handleClient() with a POST /setip carrying an ip argument
OSCHandleSetIp ==
  /\ UNCHANGED buzzerVars
  /\ oscPc = "handleClient"
  /\ \E ip \in IpValues : oscServerIp' = ip
  /\ udp1' = <<>>
  /\ udp2' = <<>>
  /\ oscPc' = "button"
  /\ UNCHANGED <<gyr, acc, optMsg, buttonCounter, lastButtonPress,
                 lastButtonState, sample, oscMillis>>

\* server.handleClient() with no request, a GET /, or a /setip without ip
OSCHandleNone ==
  /\ UNCHANGED buzzerVars
  /\ oscPc = "handleClient"
  /\ udp1' = <<>>
  /\ udp2' = <<>>
  /\ oscPc' = "button"
  /\ UNCHANGED <<oscServerIp, gyr, acc, optMsg, buttonCounter,
                 lastButtonPress, lastButtonState, sample, oscMillis>>

\* OSCButtonPress without the wrap of the counter back to 1
OSCButtonPress_NoWrap ==
  /\ UNCHANGED buzzerVars
  /\ oscPc = "button"
  /\ \E buttonState \in {"HIGH", "LOW"} :
       /\ lastButtonState = "HIGH" /\ buttonState = "LOW"
       /\ oscMillis - lastButtonPress > debounceDelay
       /\ LET c1 == buttonCounter + 1
          IN  /\ buttonCounter' = c1
              /\ sendOptOSC(c1)
       /\ lastButtonPress' = oscMillis
       /\ lastButtonState' = buttonState
  /\ oscPc' = "sample"
  /\ UNCHANGED <<oscServerIp, gyr, acc, sample, oscMillis>>

\* the button logic on a falling edge past the debounce delay
OSCButtonPress ==
  /\ UNCHANGED buzzerVars
  /\ oscPc = "button"
  /\ \E buttonState \in {"HIGH", "LOW"} :
       /\ lastButtonState = "HIGH" /\ buttonState = "LOW"
       /\ oscMillis - lastButtonPress > debounceDelay
       /\ LET c1 == buttonCounter + 1
              c2 == IF c1 > 5 THEN 1 ELSE c1
          IN  /\ buttonCounter' = c2
              /\ sendOptOSC(c2)
       /\ lastButtonPress' = oscMillis
       /\ lastButtonState' = buttonState
  /\ oscPc' = "sample"
  /\ UNCHANGED <<oscServerIp, gyr, acc, sample, oscMillis>>

\* the button logic with no falling edge, or one within the debounce delay
OSCButtonIdle ==
  /\ UNCHANGED buzzerVars
  /\ oscPc = "button"
  /\ \E buttonState \in {"HIGH", "LOW"} :
       /\ ~(/\ lastButtonState = "HIGH" /\ buttonState = "LOW"
            /\ oscMillis - lastButtonPress > debounceDelay)
       /\ lastButtonState' = buttonState
  /\ oscPc' = "sample"
  /\ UNCHANGED <<oscServerIp, gyr, acc, optMsg, buttonCounter,
                 lastButtonPress, sample, udp1, udp2, oscMillis>>

\* getAcceleration, getRotation, sendOSCMessages
OSCSend ==
  /\ UNCHANGED buzzerVars
  /\ oscPc = "sample"
  /\ \E ax \in AccSamples, ay \in AccSamples, az \in AccSamples,
        gx \in GyroSamples, gy \in GyroSamples, gz \in GyroSamples :
       /\ sample' = <<ax, ay, az, gx, gy, gz>>
       /\ sendOSCMessages(ax, ay, az, gx, gy, gz)
  /\ oscPc' = "delay"
  /\ UNCHANGED <<oscServerIp, optMsg, buttonCounter, lastButtonPress,
                 lastButtonState, oscMillis>>

\* delay(150);
OSCDelay ==
  /\ UNCHANGED buzzerVars
  /\ oscPc = "delay"
  /\ oscMillis + OscLoopDelay <= MaxOscMillis
  /\ oscMillis' = oscMillis + OscLoopDelay
  /\ sample' = <<>>
  /\ oscPc' = "handleClient"
  /\ UNCHANGED <<oscServerIp, gyr, acc, optMsg, buttonCounter,
                 lastButtonPress, lastButtonState, udp1, udp2>>

\* loop() of the OSC sketch first runs
InitOSC ==
  /\ InitBuzzer
  /\ OSCGlobals
  /\ oscMillis \in BootMillis
  /\ oscPc = "handleClient"

NextOSC ==
  \/ OSCHandleSetIp
  \/ OSCHandleNone
  \/ OSCButtonPress
  \/ OSCButtonIdle
  \/ OSCSend
  \/ OSCDelay

SpecOSC == InitOSC /\ [][NextOSC]_vars

\* ------------------------------------------------------------- the claims
\* the live call frame is of a call that met the near-stillness condition
Silenced == call.totalAcc < 50 \/ call.totalSpin < 50

\* the values of the duration table
TableValues == {125, 250, 500, 1000, 1500}

\* C1: whenever defineMelodyNote or defineBassNote is called with
\* totalAcc < 0.5 or totalSpin < 0.5, the voice's Note is left with pitch 7 and
\* duration 50, whatever the prior Note and the random draws.
C1_NearStillness ==
  /\ (call.fn = "defineMelodyNote" /\ Silenced) =>
       (melodyCurrentNote.pitch = 7 /\ melodyCurrentNote.duration = 50)
  /\ (call.fn = "defineBassNote" /\ Silenced) =>
       (bassCurrentNote.pitch = 7 /\ bassCurrentNote.duration = 50)

\* a bass call with only the spin below 0.5, whose duration selection had
\* returned 1000, left pitch 7 and duration 50
C1_Witness ==
  /\ call.fn = "defineBassNote"
  /\ call.totalAcc = 100
  /\ call.totalSpin = 0
  /\ call.ret = 1000
  /\ bassCurrentNote.pitch = 7
  /\ bassCurrentNote.duration = 50

\* C2: the value returned by defineNoteDuration is a table value in the
\* documented band: 1500 for 0.5 < totalAcc < 0.75, 500..1000 for
\* 0.75 < totalAcc < 3, and 125..250 otherwise.
C2_DurationBands ==
  call.fn # "none" =>
    /\ call.ret \in TableValues
    /\ IF call.totalAcc > 50 /\ call.totalAcc < 75 THEN call.ret = 1500
       ELSE IF call.totalAcc > 75 /\ call.totalAcc < 300
         THEN call.ret \in 500..1000
       ELSE call.ret \in 125..250

\* C3 as stated: after a derivation the melody duration is a table value and
\* the bass duration is a table value or twice one.
C3_DurationInTable ==
  /\ call.fn = "defineMelodyNote" =>
       melodyCurrentNote.duration \in TableValues
  /\ call.fn = "defineBassNote" =>
       bassCurrentNote.duration \in
         TableValues \cup {2 * d : d \in TableValues}

\* C3 as amended: in every state the melody duration is a table value, or 50
\* with the voice silenced (pitch 7), or 0 before the voice's first
\* derivation; the bass duration is a table value or twice one, or 50 with the
\* voice silenced, or 0 before the voice's first derivation.
C3_DurationOrSilence ==
  /\ \/ melodyCurrentNote.duration \in TableValues
     \/ melodyCurrentNote.duration = 50 /\ melodyCurrentNote.pitch = 7
     \/ /\ melodyCurrentNote.duration = 0
        /\ melodyCurrentNote.pitch = 0
        /\ melodyCurrentNote.octave = 3
        /\ tone1 = Off
        /\ previousMillisMelody = 0
  /\ \/ bassCurrentNote.duration \in
          TableValues \cup {2 * d : d \in TableValues}
     \/ bassCurrentNote.duration = 50 /\ bassCurrentNote.pitch = 7
     \/ /\ bassCurrentNote.duration = 0
        /\ bassCurrentNote.pitch = 0
        /\ bassCurrentNote.octave = 0
        /\ tone2 = Off
        /\ previousMillisBass = 0

\* the melody voice silenced with duration 50 while the bass voice holds a
\* doubled table value
C3_Witness ==
  /\ melodyCurrentNote.duration = 50
  /\ melodyCurrentNote.is_playing
  /\ bassCurrentNote.duration = 2000
  /\ bassCurrentNote.is_playing

\* C4: the melody octave is always in 0..5, and after every defineMelodyNote
\* call the pitch is 7 when the near-stillness override fired and in 0..6
\* when it did not.
C4_MelodyRange ==
  /\ melodyCurrentNote.octave \in 0..5
  /\ melodyCurrentNote.pitch \in 0..7
  /\ call.fn = "defineMelodyNote" =>
       IF Silenced THEN melodyCurrentNote.pitch = 7
       ELSE melodyCurrentNote.pitch \in 0..6

\* a call that started from a silenced pitch of 7, was not silenced itself
\* and added jitter, left a pitch in 0..6
C4_Witness ==
  /\ call.fn = "defineMelodyNote"
  /\ call.pitchIn = 7
  /\ call.totalSpin = 500
  /\ ~Silenced
  /\ melodyCurrentNote.pitch \in 0..6

\* C5: the bass octave is always in 0..5, and after every defineBassNote call
\* the bass pitch is 7 when the override fired and otherwise an entry of the
\* harmonics row of the melody Note's pitch at the call.
C5_BassCoupling ==
  /\ bassCurrentNote.octave \in 0..5
  /\ call.fn = "defineBassNote" =>
       IF Silenced THEN bassCurrentNote.pitch = 7
       ELSE bassCurrentNote.pitch \in
              {harmonics[melodyCurrentNote.pitch][c] : c \in 0..2}

\* both voices updated in one iteration after the first: the bass pitch comes
\* from the row of the freshly derived melody pitch
C5_Witness ==
  /\ call.fn = "defineBassNote"
  /\ ~Silenced
  /\ currentMillis > 0
  /\ previousMillisMelody = currentMillis
  /\ melodyCurrentNote.pitch = 3
  /\ bassCurrentNote.pitch = 5
  /\ call.pitchIn # 3

\* C6: each call moves the octave one step (down when the governing
\* magnitude is < 3, up when it is >= 3; totalAcc for melody, totalSpin for
\* bass), then wraps: melody -1 to 5 and 6 to 2, bass -1 to 2 and 6 to 0, and
\* an in-range octave stays.
C6_OctaveWrap ==
  /\ call.fn = "defineMelodyNote" =>
       LET walk == call.octaveIn + (IF call.totalAcc < 300 THEN -1 ELSE 1)
       IN  /\ call.octaveWalk = walk
           /\ melodyCurrentNote.octave =
                (IF walk = -1 THEN 5 ELSE IF walk = 6 THEN 2 ELSE walk)
  /\ call.fn = "defineBassNote" =>
       LET walk == call.octaveIn + (IF call.totalSpin < 300 THEN -1 ELSE 1)
       IN  /\ call.octaveWalk = walk
           /\ bassCurrentNote.octave =
                (IF walk = -1 THEN 2 ELSE IF walk = 6 THEN 0 ELSE walk)

\* a bass call walked the octave from 5 to 6 and left octave 0
C6_Witness ==
  /\ call.fn = "defineBassNote"
  /\ call.octaveIn = 5
  /\ call.octaveWalk = 6
  /\ bassCurrentNote.octave = 0

\* C7: every table lookup uses in-bounds indices: bb_scale[octave][pitch] of
\* playMelodyNote and playBassNote, harmonics[melody pitch][column] of
\* defineBassNote, and the noteDuration index of defineNoteDuration.
C7_InBounds ==
  /\ pc = "melodyTone" =>
       (melodyCurrentNote.octave \in 0..5 /\ melodyCurrentNote.pitch \in 0..7)
  /\ pc = "bassTone" =>
       (bassCurrentNote.octave \in 0..5 /\ bassCurrentNote.pitch \in 0..7)
  /\ pc = "playBassNote" => melodyCurrentNote.pitch \in 0..7
  /\ call.fn = "defineBassNote" => (call.row \in 0..7 /\ call.col \in 0..2)
  /\ call.fn # "none" => call.idx \in 0..19

\* defineBassNote read the harmonics row of a silenced melody pitch, and the
\* bb_scale lookup of the bass voice is about to use the result
C7_Witness ==
  /\ pc = "bassTone"
  /\ call.fn = "defineBassNote"
  /\ call.row = 7
  /\ melodyCurrentNote.pitch = 7
  /\ ~Silenced
  /\ bassCurrentNote.pitch \in {0, 2}
  /\ bassCurrentNote.octave = 5

\* C8: for the harmonics row of the melody pitch, each of the row's three
\* entries (columns 0, 1 and 2) is a bass pitch the column draw of
\* defineBassNote can produce.
C8_AllColumns ==
  call.fn = "defineBassNote" =>
    {harmonics[call.row][c] : c \in HarmonicColumn} =
      {harmonics[call.row][c] : c \in 0..2}

\* C9: per voice, the voice is updated iff currentMillis minus its last
\* update time is >= its duration; an update records the time and stops the
\* previous tone (noTone only if is_playing), then re-derives the Note, then
\* starts the tone of the new Note and sets is_playing; a voice that is not
\* due keeps its Note, its last update time and its tone; is_playing is true
\* exactly while the pin sounds, so starts and stops alternate and no tone is
\* started over one still marked playing.
C9_UpdateProtocol ==
  /\ [](/\ melodyCurrentNote.is_playing <=> tone1 # Off
        /\ bassCurrentNote.is_playing <=> tone2 # Off
        /\ pc \in {"playMelodyNote", "melodyTone"} =>
             ~melodyCurrentNote.is_playing
        /\ pc \in {"playBassNote", "bassTone"} => ~bassCurrentNote.is_playing)
  /\ [][/\ pc = "melody" =>
             /\ pc' = "playMelodyNote" <=>
                  currentMillis - previousMillisMelody
                    >= melodyCurrentNote.duration
             /\ pc' = "playMelodyNote" =>
                  /\ previousMillisMelody' = currentMillis
                  /\ tone1' = Off
                  /\ melodyCurrentNote' =
                       [melodyCurrentNote EXCEPT !.is_playing = FALSE]
             /\ pc' # "playMelodyNote" =>
                  /\ pc' = "bass"
                  /\ UNCHANGED <<melodyCurrentNote, previousMillisMelody,
                                 tone1>>
        /\ pc = "playMelodyNote" =>
             /\ pc' = "melodyTone"
             /\ call'.fn = "defineMelodyNote"
             /\ tone1' = Off
        /\ pc = "melodyTone" =>
             /\ pc' = "bass"
             /\ tone1 = Off
             /\ tone1' = <<melodyCurrentNote.octave, melodyCurrentNote.pitch>>
             /\ melodyCurrentNote' =
                  [melodyCurrentNote EXCEPT !.is_playing = TRUE]
        /\ pc \notin {"melody", "playMelodyNote", "melodyTone"} =>
             UNCHANGED <<melodyCurrentNote, previousMillisMelody, tone1>>
        /\ pc = "bass" =>
             /\ pc' = "playBassNote" <=>
                  currentMillis - previousMillisBass
                    >= bassCurrentNote.duration
             /\ pc' = "playBassNote" =>
                  /\ previousMillisBass' = currentMillis
                  /\ tone2' = Off
                  /\ bassCurrentNote' =
                       [bassCurrentNote EXCEPT !.is_playing = FALSE]
             /\ pc' # "playBassNote" =>
                  /\ pc' = "delay"
                  /\ UNCHANGED <<bassCurrentNote, previousMillisBass, tone2>>
        /\ pc = "playBassNote" =>
             /\ pc' = "bassTone"
             /\ call'.fn = "defineBassNote"
             /\ tone2' = Off
        /\ pc = "bassTone" =>
             /\ pc' = "delay"
             /\ tone2 = Off
             /\ tone2' = <<bassCurrentNote.octave, bassCurrentNote.pitch>>
             /\ bassCurrentNote' = [bassCurrentNote EXCEPT !.is_playing = TRUE]
        /\ pc \notin {"bass", "playBassNote", "bassTone"} =>
             UNCHANGED <<bassCurrentNote, previousMillisBass, tone2>>
       ]_vars

\* at 150 ms the melody voice, not due at 50 and 100 ms, has been stopped and
\* restarted while the bass voice, not due, still sounds its first tone
C9_Witness ==
  /\ pc = "delay"
  /\ currentMillis = 150
  /\ previousMillisMelody = 150
  /\ previousMillisBass = 0
  /\ melodyCurrentNote.is_playing
  /\ tone1 = <<melodyCurrentNote.octave, melodyCurrentNote.pitch>>
  /\ bassCurrentNote.is_playing
  /\ bassCurrentNote.duration = 250

\* C10: every sendOSCMessages call sends to port 8000 and to port 8001 an
\* /acc message with the three sampled accelerations and a /gyr message with
\* the three sampled rotations, every sendOptOSC(value) call sends to both
\* ports an /opt message with value, and the messages are empty on return.
C10_DualPortDelivery ==
  /\ oscPc = "delay" =>
       LET n1 == Len(udp1)
           n2 == Len(udp2)
           accArgs == << [type |-> "f", value |-> sample[1]],
                         [type |-> "f", value |-> sample[2]],
                         [type |-> "f", value |-> sample[3]] >>
           gyrArgs == << [type |-> "f", value |-> sample[4]],
                         [type |-> "f", value |-> sample[5]],
                         [type |-> "f", value |-> sample[6]] >>
       IN  /\ n1 >= 2
           /\ n2 >= 2
           /\ udp1[n1 - 1] = [ip |-> oscServerIp, port |-> 8000,
                              address |-> "/acc", args |-> accArgs]
           /\ udp1[n1] = [ip |-> oscServerIp, port |-> 8000,
                          address |-> "/gyr", args |-> gyrArgs]
           /\ udp2[n2 - 1] = [ip |-> oscServerIp, port |-> 8001,
                              address |-> "/acc", args |-> accArgs]
           /\ udp2[n2] = [ip |-> oscServerIp, port |-> 8001,
                          address |-> "/gyr", args |-> gyrArgs]
           /\ acc = <<>>
           /\ gyr = <<>>
  /\ (oscPc = "sample" /\ udp1 # <<>>) =>
       LET optArgs == << [type |-> "i", value |-> buttonCounter] >>
       IN  /\ udp1 = << [ip |-> oscServerIp, port |-> 8000,
                         address |-> "/opt", args |-> optArgs] >>
           /\ udp2 = << [ip |-> oscServerIp, port |-> 8001,
                         address |-> "/opt", args |-> optArgs] >>
           /\ optMsg = <<>>

\* the /opt packets among the packets of a port
OptPackets(udp) == SelectSeq(udp, LAMBDA p : p.address = "/opt")

\* C11: buttonCounter is always in 1..5; an iteration that reads the button
\* LOW after HIGH more than 50 ms after lastButtonPress advances the counter
\* cyclically (1, 2, 3, 4, 5, 1), sends /opt once with the new value and sets
\* lastButtonPress to the time of the press; every other step leaves
\* buttonCounter and lastButtonPress unchanged and sends no /opt message.
C11_DebouncedCounter ==
  /\ [](buttonCounter \in 1..5)
  /\ [][LET accepted ==
              /\ oscPc = "button"
              /\ lastButtonState = "HIGH"
              /\ lastButtonState' = "LOW"
              /\ oscMillis - lastButtonPress > 50
        IN  IF accepted
              THEN /\ buttonCounter' = (buttonCounter % 5) + 1
                   /\ lastButtonPress' = oscMillis
                   /\ udp1' = Append(udp1,
                        [ip |-> oscServerIp, port |-> 8000,
                         address |-> "/opt",
                         args |-> << [type |-> "i",
                                      value |-> buttonCounter'] >>])
                   /\ Len(udp2') = Len(udp2) + 1
                   /\ Len(OptPackets(udp2')) = Len(OptPackets(udp2)) + 1
              ELSE /\ UNCHANGED <<buttonCounter, lastButtonPress>>
                   /\ Len(OptPackets(udp1')) <= Len(OptPackets(udp1))
                   /\ Len(OptPackets(udp2')) <= Len(OptPackets(udp2))
       ]_vars

\* the fifth accepted press took the counter from 5 back to 1 and sent /opt
\* with 1
C11_Witness ==
  /\ oscPc = "sample"
  /\ buttonCounter = 1
  /\ lastButtonPress = oscMillis
  /\ lastButtonPress > 0
  /\ lastButtonState = "LOW"
  /\ Len(OptPackets(udp1)) = 1
  /\ udp1[1].args = << [type |-> "i", value |-> 1] >>

====
